---- MODULE Spec2Model ----
(***************************************************************************)
(* Model of src/app.py (the Streamlit war-room dashboard): the session     *)
(* clock check_market_status, the three st.cache_data-memoised fetch       *)
(* functions with the sidebar refresh button, and the data-processing      *)
(* block that merges the live quote with the daily history (section 5 of   *)
(* the script).  Three specifications share the variables:                 *)
(*   SpecClock  - check_market_status over wall-clock inputs               *)
(*   SpecCache  - browser sessions running the script against the cache    *)
(*   Spec       - one script run of the data-processing block              *)
(***************************************************************************)
EXTENDS Integers, Sequences, FiniteSets, TLC

VARIABLES
    \* ---- session clock (check_market_status) ----
    market_type,    \* argument of check_market_status: "TW" | "US"
    now,            \* datetime.now(tw_tz): [weekday, hour, minute, second, microsecond]
    status,         \* first component of the returned tuple, "unset" before the call
    \* ---- st.cache_data and the sessions running the script ----
    cache,          \* key -> [present, val, age]: the entries of the function caches,
                    \* age = seconds on the cache timer since the entry was stored
    lock,           \* key -> session holding the key's compute lock, 0 when free
    sess,           \* session -> [pc, stage, code, orphan]
    fresh,          \* history, per key: the adapter was started for the key since the last clear
    \* ---- data processing of one script run ----
    inp,            \* what the adapters hand to this run
    rpc,            \* position in the script
    tk_bound,       \* the name tk is bound (line 293 completed)
    real_data,      \* the real_data dict
    current_price,
    prev_close,
    change,
    pct,
    outcome         \* "running" | "rendered" | "TypeError"

clockVars == <<market_type, now, status>>
cacheVars == <<cache, lock, sess, fresh>>
reconVars == <<inp, rpc, tk_bound, real_data, current_price, prev_close, change, pct, outcome>>
vars == <<market_type, now, status, cache, lock, sess, fresh,
          inp, rpc, tk_bound, real_data, current_price, prev_close, change, pct, outcome>>

(***************************************************************************)
(* Python values that the script mixes in one variable.                    *)
(***************************************************************************)
PyNone == [t |-> "none", v |-> 0]
Num(n) == [t |-> "num", v |-> n]
NumStr(n) == [t |-> "numstr", v |-> n]      \* a numeric string such as "25.30"
Dash == [t |-> "dash", v |-> 0]             \* the string '-'
BadStr == [t |-> "badstr", v |-> 0]         \* a string float() rejects
IsNum(x) == x.t = "num"

(***************************************************************************)
(* 2. check_market_status                                                  *)
(***************************************************************************)
\* dt_time(h, m) and now.time() compared as Python compares datetime.time:
\* lexicographically on (hour, minute, second, microsecond).
dt_time(h, m) == [hour |-> h, minute |-> m, second |-> 0, microsecond |-> 0]

TimeLE(a, b) ==
    \/ a.hour < b.hour
    \/ a.hour = b.hour /\ a.minute < b.minute
    \/ a.hour = b.hour /\ a.minute = b.minute /\ a.second < b.second
    \/ a.hour = b.hour /\ a.minute = b.minute /\ a.second = b.second
         /\ a.microsecond <= b.microsecond

market_open == dt_time(9, 0)
market_close == dt_time(13, 35)

\* InSession with the close bound taken exclusive (a faulty variant)
InSession_exclusive(current_time) ==
    TimeLE(market_open, current_time) /\ ~TimeLE(market_close, current_time)

InSession(current_time) ==
    TimeLE(market_open, current_time) /\ TimeLE(current_time, market_close)

check_market_status(mt, n) ==
    IF mt = "US"
    THEN IF 21 <= n.hour \/ n.hour < 5 THEN "open" ELSE "closed"
    ELSE LET current_time == [hour |-> n.hour, minute |-> n.minute,
                              second |-> n.second, microsecond |-> n.microsecond]
             is_weekend == n.weekday >= 5
         IN  IF is_weekend THEN "closed"
             ELSE IF InSession(current_time) THEN "open"
             ELSE "closed"

\* Wall-clock inputs: every weekday and hour, the minutes around the window
\* edges, the first and last second and microsecond of a minute.
Minutes == {0, 1, 29, 30, 31, 34, 35, 36, 59}
Seconds == {0, 59}
Micros == {0, 1}

ClockOff == market_type = "TW" /\ now = <<>> /\ status = "off"

CacheOff ==
    cache = <<>> /\ lock = <<>> /\ sess = <<>> /\ fresh = <<>>

ReconOff ==
    /\ inp = <<>> /\ rpc = "off" /\ tk_bound = FALSE /\ real_data = <<>>
    /\ current_price = PyNone /\ prev_close = PyNone /\ change = PyNone /\ pct = <<0, 1>>
    /\ outcome = "off"

InitClock ==
    /\ market_type \in {"TW", "US"}
    /\ now \in [weekday : 0..6, hour : 0..23, minute : Minutes,
                second : Seconds, microsecond : Micros]
    /\ status = "unset"
    /\ CacheOff
    /\ ReconOff

\* line 258: status_code, status_text = check_market_status(market_type=market_type)
CheckMarketStatus ==
    /\ status = "unset"
    /\ status' = check_market_status(market_type, now)
    /\ UNCHANGED <<market_type, now>>
    /\ UNCHANGED cacheVars
    /\ UNCHANGED reconVars

NextClock == CheckMarketStatus

SpecClock == InitClock /\ [][NextClock]_vars

(***************************************************************************)
(* 4./5. The script's cached fetches.  Each browser session runs the       *)
(* script in its own thread; the threads share the st.cache_data store.    *)
(*                                                                         *)
(* st.cache_data(ttl=T) wraps f so that f(args) first reads the entry of   *)
(* key (f, args); an entry is served while timer < stored-at + T.  On a    *)
(* miss the caller takes the key's compute lock, reads again, and only     *)
(* then runs f; whatever f RETURNS is stored (an exception f lets escape   *)
(* is not).  st.cache_data.clear() swaps in empty function caches: a call  *)
(* that already holds the old cache object finishes against that object,   *)
(* which nobody reads afterwards.                                          *)
(***************************************************************************)
NumSessions == 2
Sessions == 1..NumSessions

\* stock_map values the model runs the script for: a TW stock and a US stock
Codes == {"1402", "NKE"}
is_tw_stock(code) == code = "1402"      \* code.isdigit()

TTL_HISTORY == 3600
TTL_INTRADAY == 300

CachedFunctions == {"fetch_twse_history_proxy", "fetch_us_history", "get_intraday_chart_data"}
Keys == { k \in [fn : CachedFunctions, code : Codes] :
            /\ k.fn = "fetch_twse_history_proxy" => is_tw_stock(k.code)
            /\ k.fn = "fetch_us_history" => ~is_tw_stock(k.code) }

ttl(fn) == IF fn = "get_intraday_chart_data" THEN TTL_INTRADAY ELSE TTL_HISTORY

\* the cached call the script makes at each stage: lines 287/305, then 312
KeyOf(stage, code) ==
    IF stage = "hist"
    THEN [fn |-> IF is_tw_stock(code) THEN "fetch_twse_history_proxy" ELSE "fetch_us_history",
          code |-> code]
    ELSE [fn |-> "get_intraday_chart_data", code |-> code]

NoEntry == [present |-> FALSE, val |-> "", age |-> 0]

\* an entry is served while the timer is before its expiry (stored-at + ttl)
Live(c, k) == c[k].present /\ c[k].age < ttl(k.fn)

\* What a fetch function hands back to the cache wrapper.  All three bodies
\* are wrapped in try/except and RETURN None when the upstream call fails
\* (lines 109-110, 130-131, 146-150); otherwise they return the data.
FetchResults == {"data", "None"}

\* cache_data_clear clearing the history functions only (a faulty variant)
cache_data_clear_history_only(c) ==
    [k \in Keys |-> IF k.fn = "get_intraday_chart_data" THEN c[k] ELSE NoEntry]

\* st.cache_data.clear()
cache_data_clear(c) == [k \in Keys |-> NoEntry]

\* a session between two script runs
IdleSession == [pc |-> "idle", stage |-> "hist", code |-> "1402", orphan |-> FALSE]

\* the script position after a cached call has returned
Advance(r) ==
    IF r.stage = "hist"
    THEN [r EXCEPT !.pc = "get", !.stage = "intra", !.orphan = FALSE]
    ELSE IdleSession

InitCache ==
    /\ cache = [k \in Keys |-> NoEntry]
    /\ lock = [k \in Keys |-> 0]
    /\ sess = [s \in Sessions |-> IdleSession]
    /\ fresh = [k \in Keys |-> FALSE]
    /\ ClockOff
    /\ ReconOff

\* A session's script run starts (a widget interaction or page load) with
\* the radio set to `code`; the button is not pressed.
Rerun(s, code) ==
    /\ sess[s].pc = "idle"
    /\ sess' = [sess EXCEPT ![s] = [pc |-> "get", stage |-> "hist", code |-> code,
                                    orphan |-> FALSE]]
    /\ UNCHANGED <<cache, lock, fresh>>
    /\ UNCHANGED clockVars /\ UNCHANGED reconVars

\* lines 264-266: the button is pressed; st.cache_data.clear(); st.rerun()
RefreshButton(s, code) ==
    /\ sess[s].pc = "idle"
    /\ cache' = cache_data_clear(cache)
    /\ lock' = [k \in Keys |-> 0]
    /\ fresh' = [k \in Keys |-> FALSE]
    /\ sess' = [t \in Sessions |->
                  IF t = s
                  THEN [pc |-> "get", stage |-> "hist", code |-> code, orphan |-> FALSE]
                  ELSE IF sess[t].pc \in {"wait", "call"}
                       THEN [sess[t] EXCEPT !.orphan = TRUE]
                       ELSE sess[t]]
    /\ UNCHANGED clockVars /\ UNCHANGED reconVars

\* the wrapped call reads the cache: a hit returns the stored value, a miss
\* goes on to the key's compute lock
Lookup(s) ==
    /\ sess[s].pc = "get"
    /\ LET k == KeyOf(sess[s].stage, sess[s].code)
       IN  sess' = [sess EXCEPT ![s] =
                      IF Live(cache, k) THEN Advance(@) ELSE [@ EXCEPT !.pc = "wait"]]
    /\ UNCHANGED <<cache, lock, fresh>>
    /\ UNCHANGED clockVars /\ UNCHANGED reconVars

\* MustCompute without the second read under the lock (a faulty variant)
MustCompute_no_recheck(c, k) == TRUE

\* under the compute lock the cache is read again; the function runs only
\* on a second miss
MustCompute(c, k) == ~Live(c, k)

\* the session takes the compute lock of its key
Acquire(s) ==
    /\ sess[s].pc = "wait"
    /\ ~sess[s].orphan
    /\ LET k == KeyOf(sess[s].stage, sess[s].code)
       IN  /\ lock[k] = 0
           /\ IF MustCompute(cache, k)
              THEN /\ lock' = [lock EXCEPT ![k] = s]
                   /\ sess' = [sess EXCEPT ![s].pc = "call"]
                   /\ fresh' = [fresh EXCEPT ![k] = TRUE]
              ELSE /\ sess' = [sess EXCEPT ![s] = Advance(@)]
                   /\ UNCHANGED <<lock, fresh>>
    /\ UNCHANGED cache
    /\ UNCHANGED clockVars /\ UNCHANGED reconVars

\* a session whose cache object was replaced by clear() takes that object's
\* lock; the old object may or may not hold a value by then
AcquireOrphan(s, hit) ==
    /\ sess[s].pc = "wait"
    /\ sess[s].orphan
    /\ sess' = [sess EXCEPT ![s] = IF hit THEN Advance(@) ELSE [@ EXCEPT !.pc = "call"]]
    /\ UNCHANGED <<cache, lock, fresh>>
    /\ UNCHANGED clockVars /\ UNCHANGED reconVars

\* the fetch function returns r; the wrapper stores it and releases the lock
Return(s, r) ==
    /\ sess[s].pc = "call"
    /\ LET k == KeyOf(sess[s].stage, sess[s].code)
       IN  IF sess[s].orphan
           THEN UNCHANGED <<cache, lock>>
           ELSE /\ cache' = [cache EXCEPT ![k] = [present |-> TRUE, val |-> r, age |-> 0]]
                /\ lock' = [lock EXCEPT ![k] = 0]
    /\ sess' = [sess EXCEPT ![s] = Advance(@)]
    /\ UNCHANGED fresh
    /\ UNCHANGED clockVars /\ UNCHANGED reconVars

\* The cache timer advances by half the history TTL.  Ages are kept up to
\* the entry's ttl: an entry that old is expired whatever happens later.
TickSteps == {TTL_HISTORY \div 2}

Older(e, k, d) ==
    IF e.present
    THEN [e EXCEPT !.age = IF @ + d < ttl(k.fn) THEN @ + d ELSE ttl(k.fn)]
    ELSE e

Tick(d) ==
    /\ cache' = [k \in Keys |-> Older(cache[k], k, d)]
    /\ cache' # cache
    /\ UNCHANGED <<lock, sess, fresh>>
    /\ UNCHANGED clockVars /\ UNCHANGED reconVars

NextCache ==
    \/ \E s \in Sessions, code \in Codes : Rerun(s, code)
    \/ \E s \in Sessions, code \in Codes : RefreshButton(s, code)
    \/ \E s \in Sessions : Lookup(s)
    \/ \E s \in Sessions : Acquire(s)
    \/ \E s \in Sessions, hit \in BOOLEAN : AcquireOrphan(s, hit)
    \/ \E s \in Sessions, r \in FetchResults : Return(s, r)
    \/ \E d \in TickSteps : Tick(d)

SpecCache == InitCache /\ [][NextCache]_vars

(***************************************************************************)
(* 5. Data processing: one run of lines 269-348 for the selected           *)
(* instrument, given what the live-quote library and the two cached        *)
(* fetches returned.                                                       *)
(***************************************************************************)
Raises == [t |-> "raise", v |-> 0]          \* reading the attribute raises

\* The day numbers of the daily bars: 1..Days, today is day Days.
Days == 3
today_str == Days                           \* datetime.now().strftime('%Y-%m-%d')

\* Values the adapters report in the model's runs.
LivePrices == {107}                         \* last trade price of the live quote
OpenPrices == {104}                         \* today's open of the live quote
IntraCloses == {106}                        \* last close of the intraday bars
QuotePrevCloses == {101}                    \* fast_info.previous_close
LiveLots == {2600}                          \* twstock accumulate_trade_volume, in lots
LiveShares == {2600400}                     \* fast_info.last_volume, in shares
CloseOn(d) == 105 - 5 * (Days - d)          \* today 105, yesterday 100, ...
SharesOn(d) == 2500999 + d                  \* daily volume, in shares

Bar(d) == [date |-> d, open |-> CloseOn(d), high |-> CloseOn(d), low |-> CloseOn(d),
           close |-> CloseOn(d), volume |-> SharesOn(d)]

\* fetch_twse_history_proxy sorts by date (line 107); yfinance history is in
\* date order: the bars of a set of days, ascending, one bar per day.
RECURSIVE BarsOf(_)
BarsOf(D) ==
    IF D = {} THEN <<>>
    ELSE LET m == CHOOSE x \in D : \A y \in D : y <= x
         IN  Append(BarsOf(D \ {m}), Bar(m))

HistResults == {PyNone} \cup { [t |-> "list", v |-> BarsOf(D)] : D \in SUBSET (1..Days) }
IntraResults == {PyNone} \cup { [t |-> "df", v |-> c] : c \in IntraCloses }

\* twstock.realtime.get(code): raises, or answers success False, or answers
\* the realtime dict (strings)
TwLive ==
    {[src |-> "twstock", raises |-> TRUE, success |-> FALSE, latest |-> Dash, open |-> Dash,
      accumulate_trade_volume |-> PyNone],
     [src |-> "twstock", raises |-> FALSE, success |-> FALSE, latest |-> Dash, open |-> Dash,
      accumulate_trade_volume |-> PyNone]}
    \cup [src : {"twstock"}, raises : {FALSE}, success : {TRUE},
          latest : {Dash, NumStr(0), BadStr} \cup {NumStr(p) : p \in LivePrices},
          open : {Dash, BadStr} \cup {NumStr(p) : p \in OpenPrices},
          \* PyNone: the key is missing from the dict
          accumulate_trade_volume : {PyNone} \cup {NumStr(n) : n \in LiveLots}]

\* yf.Ticker(code) and the fast_info attributes the script reads
YfLive ==
    {[src |-> "yfinance", ticker_raises |-> TRUE, last_price |-> Raises, ohl |-> PyNone,
      last_volume |-> PyNone, previous_close |-> Raises]}
    \cup [src : {"yfinance"}, ticker_raises : {FALSE},
          last_price : {Raises, PyNone, Num(0)} \cup {Num(p) : p \in LivePrices},
          ohl : {PyNone} \cup {Num(p) : p \in OpenPrices},
          last_volume : {PyNone} \cup {Num(n) : n \in LiveShares},
          previous_close : {Raises, PyNone} \cup {Num(p) : p \in QuotePrevCloses}]

\* lines 250-252
Classes == {"tw_stock", "us_stock", "index"}
is_yahoo(cls) == cls \in {"us_stock", "index"}      \* is_us_stock or is_index

NoVolume == [t |-> "dash", v |-> 0, unit |-> "", grouped |-> FALSE]
\* a volume text: the number shown, the unit it counts, thousands separators
VolumeText(n, unit, grouped) == [t |-> "text", v |-> n, unit |-> unit, grouped |-> grouped]

\* line 269
real_data_default ==
    [price |-> Num(0), high |-> Dash, low |-> Dash, open |-> Dash, volume |-> NoVolume]

\* float(s) of line 277/278 for s # '-'
float_ok(x) == x.t = "numstr"
to_float(x) == Num(x.v)

\* lines 272-286
TwRealtime(q) ==
    IF q.raises \/ ~q.success THEN real_data_default
    ELSE IF q.latest # Dash /\ ~float_ok(q.latest) THEN real_data_default   \* ValueError
    ELSE LET latest0 == IF q.latest # Dash THEN to_float(q.latest) ELSE Num(0)
         IN  IF latest0 = Num(0) /\ q.open # Dash /\ ~float_ok(q.open)
             THEN real_data_default                                        \* ValueError
             ELSE LET latest == IF latest0 = Num(0)
                                THEN (IF q.open # Dash THEN to_float(q.open) ELSE Num(0))
                                ELSE latest0
                  \* high and low are passed through like open; the runs give
                  \* all three the same text
                  IN  [price |-> latest, high |-> q.open, low |-> q.open, open |-> q.open,
                       \* info.get('accumulate_trade_volume', '0'), shown as received
                       volume |-> IF q.accumulate_trade_volume # PyNone
                                  THEN VolumeText(q.accumulate_trade_volume.v, "lots", FALSE)
                                  ELSE VolumeText(0, "lots", FALSE)]

\* lines 292-303: each assignment up to the first raising read takes effect
YfFastInfo(q) ==
    IF q.ticker_raises \/ q.last_price = Raises THEN real_data_default
    ELSE LET r1 == [real_data_default EXCEPT !.price = q.last_price,
                                             !.open = q.ohl, !.high = q.ohl, !.low = q.ohl]
         IN  IF q.last_volume = PyNone THEN r1                             \* int(None)
             ELSE [r1 EXCEPT !.volume = VolumeText(q.last_volume.v, "shares", TRUE)]

LiveQuote ==
    /\ rpc = "start"
    /\ real_data' = IF inp.cls = "tw_stock" THEN TwRealtime(inp.live) ELSE YfFastInfo(inp.live)
    /\ tk_bound' = (is_yahoo(inp.cls) /\ ~inp.live.ticker_raises)
    /\ rpc' = "fetched"
    /\ UNCHANGED <<inp, current_price, prev_close, change, pct, outcome>>
    /\ UNCHANGED clockVars /\ UNCHANGED cacheVars

\* line 308: df_daily = pd.DataFrame(hist_data) if hist_data else pd.DataFrame()
df_daily(hist_data) == IF hist_data = PyNone THEN <<>> ELSE hist_data.v
iloc(df, i) == df[Len(df) + 1 + i]          \* df.iloc[i] for i < 0

\* NeedsFallback with the None test forgotten (a faulty variant)
NeedsFallback_zero_only(cp, df) == cp = Num(0) /\ df # <<>>

\* line 316
NeedsFallback(cp, df) == (cp = Num(0) \/ cp = PyNone) /\ df # <<>>

\* FallbackVolume showing the share count as it is (a faulty variant)
FallbackVolume_raw(cls, vol_num) == VolumeText(vol_num, "shares", TRUE)

\* lines 323-326; the daily volume is in shares (lines 96-100)
FallbackVolume(cls, vol_num) ==
    IF cls = "tw_stock"
    THEN VolumeText(vol_num \div 1000, "lots", TRUE)
    ELSE VolumeText(vol_num, "shares", TRUE)

\* lines 314-326
Fallback ==
    /\ rpc = "fetched"
    /\ LET df == df_daily(inp.hist_data)
       IN  IF NeedsFallback(real_data.price, df)
           THEN /\ current_price' = Num(iloc(df, -1).close)
                /\ real_data' = [real_data EXCEPT
                                   !.high = Num(iloc(df, -1).high),
                                   !.low = Num(iloc(df, -1).low),
                                   !.open = Num(iloc(df, -1).open),
                                   !.volume = FallbackVolume(inp.cls, iloc(df, -1).volume)]
           ELSE /\ current_price' = real_data.price
                /\ UNCHANGED real_data
    /\ rpc' = "merged"
    /\ UNCHANGED <<inp, tk_bound, prev_close, change, pct, outcome>>
    /\ UNCHANGED clockVars /\ UNCHANGED cacheVars

\* lines 335-338
ByPosition(df) == IF Len(df) > 1 THEN Num(iloc(df, -2).close) ELSE Num(iloc(df, -1).close)

\* lines 340-345
TwPrevClose(df) ==
    LET last_date == iloc(df, -1).date
    IN  IF last_date = today_str /\ Len(df) > 1
        THEN Num(iloc(df, -2).close)
        ELSE Num(iloc(df, -1).close)

\* lines 328-345
PrevClose ==
    /\ rpc = "merged"
    /\ LET df == df_daily(inp.hist_data)
       IN  prev_close' =
             IF df = <<>> THEN Num(0)
             ELSE IF is_yahoo(inp.cls)
                  THEN IF ~tk_bound \/ inp.live.previous_close = Raises
                       THEN ByPosition(df)
                       ELSE inp.live.previous_close
                  ELSE TwPrevClose(df)
    /\ rpc' = "closed"
    /\ UNCHANGED <<inp, tk_bound, real_data, current_price, change, pct, outcome>>
    /\ UNCHANGED clockVars /\ UNCHANGED cacheVars

\* lines 347-348; pct = <<n, d>> stands for the float n / d
Change ==
    /\ rpc = "closed"
    /\ IF IsNum(current_price) /\ IsNum(prev_close)
       THEN /\ change' = Num(current_price.v - prev_close.v)
            /\ pct' = IF prev_close.v # 0
                      THEN <<(current_price.v - prev_close.v) * 100, prev_close.v>>
                      ELSE <<0, 1>>
            /\ outcome' = "rendered"
       ELSE /\ outcome' = "TypeError"            \* a number minus None, or None minus a number
            /\ UNCHANGED <<change, pct>>
    /\ rpc' = "done"
    /\ UNCHANGED <<inp, tk_bound, real_data, current_price, prev_close>>
    /\ UNCHANGED clockVars /\ UNCHANGED cacheVars

Init ==
    /\ inp \in { i \in [cls : Classes, live : TwLive \cup YfLive,
                        hist_data : HistResults, df_intra : IntraResults] :
                    (i.cls = "tw_stock") = (i.live.src = "twstock") }
    /\ rpc = "start"
    /\ tk_bound = FALSE
    /\ real_data = real_data_default
    /\ current_price = PyNone /\ prev_close = PyNone /\ change = PyNone
    /\ pct = <<0, 1>>
    /\ outcome = "running"
    /\ ClockOff
    /\ CacheOff

Next == LiveQuote \/ Fallback \/ PrevClose \/ Change

Spec == Init /\ [][Next]_vars

(***************************************************************************)
(* Data-processing claims                                                  *)
(***************************************************************************)
Bars == df_daily(inp.hist_data)

\* the live quote's price as the claims' chains see it: "none" when the
\* quote gives no usable price
QuotePrice ==
    IF inp.cls = "tw_stock"
    THEN IF inp.live.raises \/ ~inp.live.success \/ inp.live.latest.t = "badstr" THEN "none"
         ELSE IF inp.live.latest.t = "numstr" /\ inp.live.latest.v # 0 THEN "last"
         ELSE IF inp.live.open.t = "numstr" /\ inp.live.open.v # 0 THEN "open"
         ELSE "none"
    ELSE IF ~inp.live.ticker_raises /\ inp.live.last_price.t = "num" /\ inp.live.last_price.v # 0
         THEN "last"
         ELSE "none"

QuotePriceValue ==
    IF inp.cls = "tw_stock"
    THEN (IF QuotePrice = "last" THEN inp.live.latest.v ELSE inp.live.open.v)
    ELSE inp.live.last_price.v

\* the quote sources hand over no previous close: the TW quote is never asked
\* for one, the Yahoo quote's previous_close cannot be read
QuoteHasNoPrevClose ==
    \/ inp.cls = "tw_stock"
    \/ inp.live.ticker_raises
    \/ inp.live.previous_close = Raises

BarsBeforeToday == { i \in 1..Len(Bars) : Bars[i].date < today_str }
LatestBeforeToday == Bars[CHOOSE i \in BarsBeforeToday : \A j \in BarsBeforeToday : j <= i]

\* C6 (as claimed): when the quote supplies no previous close and a daily bar
\* dated before today exists, the previous close is the close of the latest
\* such bar, for TW stocks, US stocks and the index.
C6_PrevCloseByDate ==
    (rpc \in {"closed", "done"} /\ QuoteHasNoPrevClose /\ BarsBeforeToday # {})
        => prev_close = Num(LatestBeforeToday.close)

\* C7 (as claimed): the current price comes from the first valid source in
\* the order live quote, intraday last close, daily last close.
C7_ChainWithIntraday ==
    rpc \in {"merged", "closed", "done"} =>
        IF QuotePrice # "none" THEN current_price = Num(QuotePriceValue)
        ELSE IF inp.df_intra # PyNone THEN current_price = Num(inp.df_intra.v)
        ELSE (Bars # <<>> => current_price = Num(Bars[Len(Bars)].close))

\* C7 (amended): the current price comes from the first valid source in the
\* order live quote's last price (for a TW stock whose last trade price is
\* '-' or 0: the quote's open price), then last close of the daily series;
\* the intraday series is not consulted.  A valid quote price is never
\* replaced, and a missing or invalid quote never keeps the daily close from
\* being used.
C7_ChainQuoteThenDaily ==
    rpc \in {"merged", "closed", "done"} =>
        IF QuotePrice # "none" THEN current_price = Num(QuotePriceValue)
        ELSE (Bars # <<>> => current_price = Num(Bars[Len(Bars)].close))

\* A Yahoo quote whose last price is None, with intraday bars present: the
\* price shown is the last daily close.
C7_Witness ==
    /\ rpc = "done"
    /\ inp.cls = "us_stock" /\ ~inp.live.ticker_raises /\ inp.live.last_price = PyNone
    /\ inp.df_intra # PyNone
    /\ Len(Bars) = 2
    /\ current_price = Num(Bars[2].close)

\* every source of the price and of the previous close is exhausted
AllExhausted ==
    /\ QuotePrice = "none"
    /\ Bars = <<>>
    /\ inp.df_intra = PyNone
    /\ inp.cls # "tw_stock" => (inp.live.ticker_raises \/ inp.live.previous_close.t # "num")

\* C8 (as claimed): with every source exhausted the run does not render a
\* quote (it ends in a failure outcome).
C8_ExhaustedIsNotRendered ==
    (rpc = "done" /\ AllExhausted) => outcome # "rendered"

\* C9 (as claimed): whatever the adapters return, the change computation
\* completes without an unhandled error.
C9_NeverRaises ==
    rpc = "done" => outcome # "TypeError"

\* C10 (as claimed): whichever source supplies it, the volume shown is a
\* number of shares.
C10_VolumeInShares ==
    (rpc \in {"merged", "closed", "done"} /\ real_data.volume.t = "text")
        => real_data.volume.unit = "shares"

FallbackActed == QuotePrice = "none" /\ Bars # <<>>

\* C10 (amended): whichever source supplies it, the volume shown is in one
\* unit per instrument class: lots for a TW stock (the daily share count is
\* divided by 1000, the live quote already counts lots), shares for a US
\* stock and the index.
C10_OneUnitPerClass ==
    (rpc \in {"merged", "closed", "done"} /\ real_data.volume.t = "text") =>
        /\ real_data.volume.unit = (IF inp.cls = "tw_stock" THEN "lots" ELSE "shares")
        /\ FallbackActed =>
              LET shares == Bars[Len(Bars)].volume
              IN  IF inp.cls = "tw_stock"
                  THEN /\ real_data.volume.v * 1000 <= shares
                       /\ shares < (real_data.volume.v + 1) * 1000
                  ELSE real_data.volume.v = shares

\* A TW stock whose live quote failed: the volume comes from the last daily
\* bar, in lots.
C10_Witness ==
    /\ rpc = "done"
    /\ inp.cls = "tw_stock" /\ inp.live.raises
    /\ Bars # <<>>
    /\ real_data.volume.unit = "lots"
    /\ real_data.volume.v = 2501

(***************************************************************************)
(* Cache claims                                                            *)
(***************************************************************************)
CallKey(r) == KeyOf(r.stage, r.code)

\* C1 (as claimed): a failed adapter call is never stored in the cache.
C1_FailureNeverStored ==
    \A k \in DOMAIN cache : cache[k].present => cache[k].val # "None"

\* C2 (as claimed): an adapter invocation for a key never starts while the
\* key has an unexpired entry or while another invocation for the same key
\* is running, whatever else happens in between.
C2_OneInvocationAlways ==
    [][\A s \in DOMAIN sess :
          (sess[s].pc # "call" /\ sess'[s].pc = "call") =>
              /\ ~Live(cache, CallKey(sess'[s]))
              /\ \A t \in DOMAIN sess \ {s} :
                    ~(sess[t].pc = "call" /\ CallKey(sess[t]) = CallKey(sess'[s]))]_vars

\* C2 (amended): among the gets that no st.cache_data.clear() interrupts, an
\* adapter invocation for a key starts only when the key has no unexpired
\* entry and no other such get is running the adapter for the same key; so
\* concurrent gets of one key share one invocation, and a get after expiry
\* starts exactly one.
C2_OneInvocationBetweenClears ==
    [][\A s \in DOMAIN sess :
          (sess[s].pc # "call" /\ sess'[s].pc = "call" /\ ~sess'[s].orphan) =>
              /\ ~Live(cache, CallKey(sess'[s]))
              /\ \A t \in DOMAIN sess \ {s} :
                    ~(sess[t].pc = "call" /\ ~sess[t].orphan
                        /\ CallKey(sess[t]) = CallKey(sess'[s]))]_vars

\* Two sessions miss on the same expired entry: one runs the adapter, the
\* other waits for the key's lock.
C2_Witness ==
    \E s, t \in DOMAIN sess :
        /\ s # t
        /\ sess[s].pc = "call" /\ ~sess[s].orphan
        /\ sess[t].pc = "wait" /\ ~sess[t].orphan
        /\ CallKey(sess[s]) = CallKey(sess[t])
        /\ cache[CallKey(sess[s])].present
        /\ ~Live(cache, CallKey(sess[s]))

\* C3: after the refresh button's clear, no entry of any cached function is
\* served until the adapter has been invoked again for its key: every entry
\* the cache holds was fetched after the last clear.
C3_ClearDropsEveryEntry ==
    \A k \in DOMAIN cache : cache[k].present => fresh[k]

\* The cache was cleared while a fetch of an intraday key was running (that
\* session still runs it against the discarded cache); a get issued after
\* the clear has invoked the adapter again and stored the key's new entry.
C3_Witness ==
    \E t \in DOMAIN sess :
        /\ sess[t].pc = "call" /\ sess[t].orphan /\ sess[t].stage = "intra"
        /\ cache[CallKey(sess[t])].present
        /\ fresh[CallKey(sess[t])]

(***************************************************************************)
(* Session clock claims                                                    *)
(***************************************************************************)
SecOfDay(n) == (n.hour * 60 + n.minute) * 60 + n.second
HM(h, m) == (h * 60 + m) * 60

\* C4 (as claimed): for TW and for US, every Saturday or Sunday time is
\* reported closed.
C4_WeekendAlwaysClosed ==
    (status \in {"open", "closed"} /\ now.weekday >= 5) => status = "closed"

\* C5 (as claimed): on a weekday the TW clock reports open exactly inside
\* 09:00-13:30 (the whole minute 13:30 is allowed either way).
C5_OpenExactlyUntil1330 ==
    (status \in {"open", "closed"} /\ market_type = "TW" /\ now.weekday < 5) =>
        /\ status = "open" => (HM(9, 0) <= SecOfDay(now) /\ SecOfDay(now) < HM(13, 31))
        /\ (HM(9, 0) <= SecOfDay(now) /\ SecOfDay(now) <= HM(13, 30)) => status = "open"

\* C5 (amended): for TW, Saturday 10:00 is closed, Tuesday 10:00 is open,
\* Tuesday 14:00 is closed, and on a weekday the clock reports open exactly
\* when 09:00:00 <= local time <= 13:35:00.000000 (both ends included),
\* closed otherwise.
C5_OpenExactlyUntil1335 ==
    (status \in {"open", "closed"} /\ market_type = "TW") =>
        /\ (now.weekday = 5 /\ now.hour = 10 /\ now.minute = 0) => status = "closed"
        /\ (now.weekday = 1 /\ now.hour = 10 /\ now.minute = 0) => status = "open"
        /\ (now.weekday = 1 /\ now.hour = 14 /\ now.minute = 0) => status = "closed"
        /\ now.weekday < 5 =>
              (status = "open" <=>
                 /\ HM(9, 0) <= SecOfDay(now)
                 /\ \/ SecOfDay(now) < HM(13, 35)
                    \/ SecOfDay(now) = HM(13, 35) /\ now.microsecond = 0)

\* Tuesday 13:35:00.000000, the last instant of the window, has been classified.
C5_Witness ==
    /\ market_type = "TW" /\ status = "open"
    /\ now.weekday = 1 /\ now.hour = 13 /\ now.minute = 35
    /\ now.second = 0 /\ now.microsecond = 0

====
